---------------------------- MODULE Spec2Model ----------------------------
(***************************************************************************)
(* A model of PlotData.py: the table reader readfile, the construction of  *)
(* the symbol table `data`, and the expression resolver gety.              *)
(*                                                                         *)
(* Text is modelled character by character: a string is a sequence of     *)
(* one-character strings, a file is one such sequence in which "\n" ends   *)
(* a line, and a stream position is a character offset into it.  The file *)
(* is a regular (seekable) file, which fp.tell and fp.seek presuppose.     *)
(* A float is modelled by the exact rational <<n, d>> it denotes, with     *)
(* <<1,0>>, <<-1,0>> and <<0,0>> standing for inf, -inf and nan; rounding  *)
(* of binary floating point is not modelled.                               *)
(***************************************************************************)
EXTENDS Integers, Sequences, FiniteSets, TLC

(***************************************************************************)
(* Bounds of the model.                                                    *)
(***************************************************************************)
MaxLines == 3

(***************************************************************************)
(* Characters and elementary string functions.                             *)
(***************************************************************************)
NL == "\n"
Whitespace == {" ", NL}
Digits == <<"0", "1", "2", "3", "4", "5", "6", "7", "8", "9">>
Letters == {"a", "b", "c", "d", "e", "f", "i", "l", "m", "n", "o", "s", "t",
            "u", "x", "y"}

IsDigit(c) == \E d \in 1..Len(Digits) : Digits[d] = c
DigitVal(c) == (CHOOSE d \in 1..Len(Digits) : Digits[d] = c) - 1

SetMin(S) == CHOOSE x \in S : \A z \in S : x <= z
SetMax(S) == CHOOSE x \in S : \A z \in S : x >= z

\* str.startswith
StartsWith(s, p) == Len(s) >= Len(p) /\ SubSeq(s, 1, Len(p)) = p

\* s[i:] for an index i >= 0
DropFirst(s, i) == SubSeq(s, i + 1, Len(s))

\* str.strip(): surrounding whitespace removed
Strip(s) ==
  LET keep == {i \in 1..Len(s) : s[i] \notin Whitespace}
  IN  IF keep = {} THEN <<>> ELSE SubSeq(s, SetMin(keep), SetMax(keep))

\* str.split(): the maximal runs of non-whitespace characters
RECURSIVE SplitFrom(_, _, _, _)
SplitFrom(s, i, cur, acc) ==
  IF i > Len(s)
    THEN IF cur = <<>> THEN acc ELSE Append(acc, cur)
    ELSE IF s[i] \in Whitespace
           THEN SplitFrom(s, i + 1, <<>>,
                          IF cur = <<>> THEN acc ELSE Append(acc, cur))
           ELSE SplitFrom(s, i + 1, Append(cur, s[i]), acc)
Split(s) == SplitFrom(s, 1, <<>>, <<>>)

(***************************************************************************)
(* float(): the text of a number to its value.                             *)
(***************************************************************************)
Abs(n) == IF n < 0 THEN -n ELSE n

RECURSIVE Gcd(_, _)
Gcd(a, b) == IF b = 0 THEN a ELSE Gcd(b, a % b)

\* the rational n/d in lowest terms with a positive denominator;
\* d = 0 gives inf, -inf or nan
Frac(n, d) ==
  IF d = 0 THEN <<(IF n > 0 THEN 1 ELSE IF n < 0 THEN -1 ELSE 0), 0>>
  ELSE LET g == Gcd(Abs(n), Abs(d))
           sg == IF d < 0 THEN -1 ELSE 1
       IN  <<(sg * n) \div g, (sg * d) \div g>>

Inf == <<1, 0>>
NaN == <<0, 0>>
Neg(v) == <<-v[1], v[2]>>

RECURSIVE Pow10(_)
Pow10(k) == IF k = 0 THEN 1 ELSE 10 * Pow10(k - 1)

RECURSIVE IntOf(_)
IntOf(s) ==
  IF s = <<>> THEN 0 ELSE 10 * IntOf(SubSeq(s, 1, Len(s) - 1)) + DigitVal(s[Len(s)])

IsDigits(s) == Len(s) >= 1 /\ \A i \in 1..Len(s) : IsDigit(s[i])
AllDigits(s) == \A i \in 1..Len(s) : IsDigit(s[i])

\* digits [ "." digits ], at least one digit in all
IsMantissa(s) ==
  LET dots == {i \in 1..Len(s) : s[i] = "."}
  IN  \/ dots = {} /\ IsDigits(s)
      \/ /\ Cardinality(dots) = 1
         /\ Len(s) >= 2
         /\ AllDigits(SubSeq(s, 1, SetMin(dots) - 1))
         /\ AllDigits(DropFirst(s, SetMin(dots)))

MantissaVal(s) ==
  LET dots == {i \in 1..Len(s) : s[i] = "."}
  IN  IF dots = {} THEN Frac(IntOf(s), 1)
      ELSE LET p == SetMin(dots)
           IN  Frac(IntOf(SubSeq(s, 1, p - 1) \o DropFirst(s, p)),
                    Pow10(Len(s) - p))

IsSign(c) == c \in {"-", "+"}
Unsign(s) == IF s # <<>> /\ IsSign(s[1]) THEN Tail(s) ELSE s

\* mantissa [ "e" [sign] digits ]
IsDecimal(s) ==
  LET es == {i \in 1..Len(s) : s[i] = "e"}
  IN  \/ es = {} /\ IsMantissa(s)
      \/ /\ Cardinality(es) = 1
         /\ IsMantissa(SubSeq(s, 1, SetMin(es) - 1))
         /\ IsDigits(Unsign(DropFirst(s, SetMin(es))))

DecimalVal(s) ==
  LET es == {i \in 1..Len(s) : s[i] = "e"}
  IN  IF es = {} THEN MantissaVal(s)
      ELSE LET p == SetMin(es)
               m == MantissaVal(SubSeq(s, 1, p - 1))
               x == DropFirst(s, p)
               k == IntOf(Unsign(x))
           IN  IF x[1] = "-" THEN Frac(m[1], m[2] * Pow10(k))
                             ELSE Frac(m[1] * Pow10(k), m[2])

W_inf == <<"i", "n", "f">>
W_infinity == <<"i", "n", "f", "i", "n", "i", "t", "y">>
W_nan == <<"n", "a", "n">>

\* does float(s) succeed
IsFloat(s) ==
  LET u == Unsign(s)
  IN  u \in {W_inf, W_infinity, W_nan} \/ IsDecimal(u)

\* the value of float(s) when it succeeds
FloatOf(s) ==
  LET u == Unsign(s)
      v == IF u \in {W_inf, W_infinity} THEN Inf
           ELSE IF u = W_nan THEN NaN
           ELSE DecimalVal(u)
  IN  IF s[1] = "-" THEN Neg(v) ELSE v

\* [ float(s) for s in line.split() ] raises nothing
IsNumericLine(line) == \A i \in 1..Len(Split(line)) : IsFloat(Split(line)[i])
ParseRow(line) == [i \in 1..Len(Split(line)) |-> FloatOf(Split(line)[i])]

(***************************************************************************)
(* shlex.split(s): POSIX mode, whitespace_split, no comment characters.    *)
(* The tokenizer's state is " " (between tokens), "a" (in a word), a quote *)
(* character (inside that quote) or the escape character (after one).      *)
(***************************************************************************)
Quotes == {"'", "\""}
Escape == "\\"
EscapedQuotes == {"\""}

ShlexOk(toks) == [ok |-> TRUE, tokens |-> toks, error |-> ""]
ShlexError(msg) == [ok |-> FALSE, tokens |-> <<>>, error |-> msg]

\* the token under construction is emitted at whitespace or at the end of the
\* text when it is non-empty or a quote was seen
Emit(acc, token, quoted) ==
  IF token # <<>> \/ quoted THEN Append(acc, token) ELSE acc

RECURSIVE ShlexRun(_, _, _, _, _, _, _)
ShlexRun(s, i, state, escapedstate, token, quoted, acc) ==
  IF i > Len(s)
    THEN IF state \in Quotes THEN ShlexError("No closing quotation")
         ELSE IF state = Escape THEN ShlexError("No escaped character")
         ELSE ShlexOk(Emit(acc, token, quoted))
    ELSE
      LET c == s[i] IN
      IF state = " " THEN
        IF c \in Whitespace
          THEN ShlexRun(s, i + 1, " ", escapedstate, <<>>, FALSE,
                        Emit(acc, token, quoted))
        ELSE IF c = Escape
          THEN ShlexRun(s, i + 1, Escape, "a", token, quoted, acc)
        ELSE IF c \in Quotes
          THEN ShlexRun(s, i + 1, c, escapedstate, token, quoted, acc)
        ELSE ShlexRun(s, i + 1, "a", escapedstate, <<c>>, quoted, acc)
      ELSE IF state \in Quotes THEN
        IF c = state
          THEN ShlexRun(s, i + 1, "a", escapedstate, token, TRUE, acc)
        ELSE IF c = Escape /\ state \in EscapedQuotes
          THEN ShlexRun(s, i + 1, Escape, state, token, TRUE, acc)
        ELSE ShlexRun(s, i + 1, state, escapedstate, Append(token, c), TRUE, acc)
      ELSE IF state = Escape THEN
        \* inside double quotes only the quote and the escape are escapable
        LET t == IF escapedstate \in Quotes /\ c # Escape /\ c # escapedstate
                   THEN Append(Append(token, Escape), c)
                   ELSE Append(token, c)
        IN  ShlexRun(s, i + 1, escapedstate, escapedstate, t, quoted, acc)
      ELSE \* state = "a"
        IF c \in Whitespace
          THEN ShlexRun(s, i + 1, " ", escapedstate, <<>>, FALSE,
                        Emit(acc, token, quoted))
        ELSE IF c \in Quotes
          THEN ShlexRun(s, i + 1, c, escapedstate, token, quoted, acc)
        ELSE IF c = Escape
          THEN ShlexRun(s, i + 1, Escape, "a", token, quoted, acc)
        ELSE ShlexRun(s, i + 1, "a", escapedstate, Append(token, c), quoted, acc)

ShlexSplit(s) == ShlexRun(s, 1, " ", " ", <<>>, FALSE, <<>>)

(***************************************************************************)
(* The input files: up to MaxLines lines, each ended by a newline, drawn   *)
(* from a pool of lines that has blank, numeric, partly numeric, label and *)
(* prose lines.                                                            *)
(***************************************************************************)
L_blank == <<" ">>
L_row2 == <<"1", " ", "2">>
L_row3 == <<"-", ".", "5", " ", "n", "a", "n", " ", "1", "e", "1">>
L_mixed == <<"1", " ", "y">>
L_hashlabels == <<"#", " ", "l", "a", "b", "e", "l", "s", " ", "a", " ", "b">>
L_quote == <<"i", "t", "'", "s">>
L_backslash == <<"a", "\\">>
L_quoted == <<"c", "o", "l", "u", "m", "n", "1", " ", "'", "a", " ", "b", "'">>
L_dup == <<"a", " ", "a", " ", "i", "n">>

LinePool == {L_blank, L_row2, L_row3, L_mixed, L_hashlabels, L_quote,
             L_backslash, L_quoted, L_dup}

RECURSIVE FilesOf(_)
FilesOf(k) ==
  IF k = 0 THEN {<<>>}
  ELSE FilesOf(k - 1) \cup
       {f \o l \o <<NL>> : f \in FilesOf(k - 1), l \in LinePool}
Files == FilesOf(MaxLines)

\* the interpreters the program may run under: sys.version_info as <<major, minor>>
Versions == {<<2, 7>>, <<3, 6>>}

(***************************************************************************)
(* The state.                                                              *)
(***************************************************************************)
VARIABLES
  content,    \* the characters of args.datafile
  pos,        \* its stream position (a character offset)
  version,    \* sys.version_info
  pc,         \* where the program is
  exit,       \* how readfile's loop ended: "eof", "blank" or "rewind"
  npos,       \* readfile: npos
  line,       \* readfile: line
  comments,   \* readfile: comments, then the module's comments
  rows,       \* readfile: rows
  cols,       \* readfile: cols, then the module's cols
  labels,     \* readfile: labels, then the module's labels
  nrows,      \* the module's nrows
  data,       \* the module's data: the (key, column) items in insertion order
  expr,       \* gety: a_string of the last call (empty before the first)
  env,        \* gety: the names the binding loop of the last call bound
  result,     \* what the last call of gety returned
  ylocal,     \* gety: the local y, when it is bound
  yglobal,    \* the module-level name y
  exc         \* the exception that ended the program, if any

vars == <<content, pos, version, pc, exit, npos, line, comments, rows, cols,
          labels, nrows, data, expr, env, result, ylocal, yglobal,
          exc>>

fileVars == <<content, version>>
readVars == <<exit, npos, line, comments, rows, cols, labels>>
mainVars == <<nrows, data>>
getyVars == <<expr, env, result, ylocal, yglobal>>

NoExc == [type |-> "", text |-> <<>>]
Exc(t, x) == [type |-> t, text |-> x]
NoResult == [kind |-> "none", col |-> 0, val |-> <<>>]

\* fp.readline() at offset p: the characters up to and including the next
\* newline, or up to the end of the file; empty at the end of the file
ReadLine(c, p) ==
  LET nls == {i \in (p + 1)..Len(c) : c[i] = NL}
  IN  IF nls = {} THEN SubSeq(c, p + 1, Len(c)) ELSE SubSeq(c, p + 1, SetMin(nls))

Init ==
  /\ content \in Files
  /\ version \in Versions
  /\ pos = 0
  /\ pc = "start"
  /\ exit = ""
  /\ npos = 0
  /\ line = <<>>
  /\ comments = <<>>
  /\ rows = <<>>
  /\ cols = <<>>
  /\ labels = <<>>
  /\ nrows = 0
  /\ data = <<>>
  /\ expr = <<>>
  /\ env = <<>>
  /\ result = NoResult
  /\ ylocal = NoResult
  /\ yglobal = NoResult
  /\ exc = NoExc

(***************************************************************************)
(* readfile                                                                *)
(***************************************************************************)
\* npos = fp.tell(); line = fp.readline()
Advance ==
  /\ npos' = pos
  /\ line' = ReadLine(content, pos)
  /\ pos' = pos + Len(ReadLine(content, pos))

\* a seek that leaves the stream where it is
SeekNoRewind(target, current) == current
\* fp.seek(npos): the position the stream is left at
Seek(target, current) == target

\* the rows handed on as the columns
ZipNoTranspose(rs) == rs
\* zip(*rows) as lists: one column per position every row has
Zip(rs) ==
  LET width == SetMin({Len(rs[j]) : j \in 1..Len(rs)})
  IN  [i \in 1..width |-> [j \in 1..Len(rs) |-> rs[j][i]]]

\* a reader without the test for a blank line
IsBlankNever(stripped) == FALSE
\* not line, for the stripped line
IsBlank(stripped) == stripped = <<>>

ReadfileBegin ==
  /\ pc = "start"
  /\ Advance
  /\ pc' = "loop"
  /\ UNCHANGED <<fileVars, exit, comments, rows, cols, labels, mainVars,
                 getyVars, exc>>

\* while line: fails at the end of the file
LoopEof ==
  /\ pc = "loop"
  /\ line = <<>>
  /\ exit' = "eof"
  /\ pc' = "transpose"
  /\ UNCHANGED <<fileVars, pos, npos, line, comments, rows, cols, labels,
                 mainVars, getyVars, exc>>

\* a blank line: break
LoopBlank ==
  /\ pc = "loop"
  /\ line # <<>>
  /\ IsBlank(Strip(line))
  /\ line' = Strip(line)
  /\ exit' = "blank"
  /\ pc' = "transpose"
  /\ UNCHANGED <<fileVars, pos, npos, comments, rows, cols, labels, mainVars,
                 getyVars, exc>>

\* every token is a float: the line is a row
LoopRow ==
  /\ pc = "loop"
  /\ line # <<>>
  /\ ~IsBlank(Strip(line))
  /\ IsNumericLine(Strip(line))
  /\ rows' = Append(rows, ParseRow(Strip(line)))
  /\ Advance
  /\ UNCHANGED <<fileVars, pc, exit, comments, cols, labels, mainVars,
                 getyVars, exc>>

\* float() raised and there is no row yet: the line is a comment
LoopComment ==
  /\ pc = "loop"
  /\ line # <<>>
  /\ ~IsBlank(Strip(line))
  /\ ~IsNumericLine(Strip(line))
  /\ rows = <<>>
  /\ comments' = Append(comments, Strip(line))
  /\ Advance
  /\ UNCHANGED <<fileVars, pc, exit, rows, cols, labels, mainVars, getyVars,
                 exc>>

\* float() raised after a row: fp.seek(npos); break
LoopRewind ==
  /\ pc = "loop"
  /\ line # <<>>
  /\ ~IsBlank(Strip(line))
  /\ ~IsNumericLine(Strip(line))
  /\ rows # <<>>
  /\ line' = Strip(line)
  /\ pos' = Seek(npos, pos)
  /\ exit' = "rewind"
  /\ pc' = "transpose"
  /\ UNCHANGED <<fileVars, npos, comments, rows, cols, labels, mainVars,
                 getyVars, exc>>

\* if rows: cols = list( map(list, zip(*rows) ) )
Transpose ==
  /\ pc = "transpose"
  /\ cols' = IF rows # <<>> THEN Zip(rows) ELSE cols
  /\ pc' = "labels"
  /\ UNCHANGED <<fileVars, pos, exit, npos, line, comments, rows, labels,
                 mainVars, getyVars, exc>>

W_labels == <<"l", "a", "b", "e", "l", "s">>

\* the text handed to shlex.split for the last comment
LabelText(comment) ==
  LET s1 == IF StartsWith(comment, <<"#">>)
              THEN Strip(DropFirst(comment, 1)) ELSE comment
  IN  IF StartsWith(s1, W_labels) THEN Strip(DropFirst(s1, 1)) ELSE s1

\* if comments: ... labels = shlex.split( s ); return cols, comments, labels
FindLabels ==
  /\ pc = "labels"
  /\ \/ /\ comments = <<>>
        /\ pc' = "returned"
        /\ UNCHANGED <<labels, exc>>
     \/ /\ comments # <<>>
        /\ ShlexSplit(LabelText(comments[Len(comments)])).ok
        /\ labels' = ShlexSplit(LabelText(comments[Len(comments)])).tokens
        /\ pc' = "returned"
        /\ UNCHANGED exc
     \/ /\ comments # <<>>
        /\ ~ShlexSplit(LabelText(comments[Len(comments)])).ok
        /\ exc' = Exc("ValueError", <<>>)
        /\ pc' = "raised_readfile"
        /\ UNCHANGED labels
  /\ UNCHANGED <<fileVars, pos, exit, npos, line, comments, rows, cols,
                 mainVars, getyVars>>

(***************************************************************************)
(* The module's code after readfile: nrows and the symbol table.           *)
(***************************************************************************)
W_column == <<"c", "o", "l", "u", "m", "n">>

\* '%d' % n for n >= 0
RECURSIVE DecimalText(_)
DecimalText(n) ==
  IF n < 10 THEN <<Digits[n + 1]>>
  ELSE Append(DecimalText(n \div 10), Digits[(n % 10) + 1])

\* 'column%d' % n
ColumnName(n) == W_column \o DecimalText(n)

\* a dict as the sequence of its items in insertion order; a column is held
\* by reference, as its index in cols (from 0)
DictKeys(d) == {d[i].key : i \in 1..Len(d)}
DictHas(d, k) == k \in DictKeys(d)
DictGet(d, k) == d[CHOOSE i \in 1..Len(d) : d[i].key = k].col
\* an assignment that adds an item even when the key is present
DictSetAppendOnly(d, k, c) == Append(d, [key |-> k, col |-> c])
\* d[k] = c
DictSet(d, k, c) ==
  IF DictHas(d, k)
    THEN [i \in 1..Len(d) |-> IF d[i].key = k THEN [key |-> k, col |-> c] ELSE d[i]]
    ELSE Append(d, [key |-> k, col |-> c])

\* for n,c in enumerate(cols): data[ 'column%d'%n ] = c, from index n on
RECURSIVE AddPositional(_, _, _)
AddPositional(d, n, count) ==
  IF n >= count THEN d
  ELSE AddPositional(DictSet(d, ColumnName(n), n), n + 1, count)

\* for l, c in zip(labels,cols): data[ l ] = c, from index k on
RECURSIVE AddLabels(_, _, _, _)
AddLabels(d, ls, k, count) ==
  IF k >= count \/ k >= Len(ls) THEN d
  ELSE AddLabels(DictSet(d, ls[k + 1], k), ls, k + 1, count)

\* nrows = len(cols[0])
MainNrows ==
  /\ pc = "returned"
  /\ IF cols = <<>>
       THEN /\ exc' = Exc("IndexError", <<>>)
            /\ pc' = "raised_main"
            /\ UNCHANGED nrows
       ELSE /\ nrows' = Len(cols[1])
            /\ pc' = "build"
            /\ UNCHANGED exc
  /\ UNCHANGED <<fileVars, pos, readVars, data, getyVars>>

BuildPositional ==
  /\ pc = "build"
  /\ data' = AddPositional(<<>>, 0, Len(cols))
  /\ pc' = "build_labels"
  /\ UNCHANGED <<fileVars, pos, readVars, nrows, getyVars, exc>>

BuildLabels ==
  /\ pc = "build_labels"
  /\ data' = IF labels # <<>> THEN AddLabels(data, labels, 0, Len(cols)) ELSE data
  /\ pc' = "plot"
  /\ UNCHANGED <<fileVars, pos, readVars, nrows, getyVars, exc>>

(***************************************************************************)
(* gety                                                                    *)
(*                                                                         *)
(* The expressions evaluated are those of the grammar                      *)
(*     operand | sign operand | operand operator operand                   *)
(* over names, decimal numerals and + - * /.  ExprPool stays inside this   *)
(* grammar or outside Python's, and names no module-level variable.        *)
(***************************************************************************)
Operators == {"+", "-", "*", "/"}
IsWordChar(c) == c \in Letters \/ IsDigit(c)

\* a Python identifier over the model's characters
IsIdentifier(s) ==
  /\ s # <<>>
  /\ s[1] \in Letters
  /\ \A i \in 1..Len(s) : IsWordChar(s[i])

\* the reserved words among the names the model's texts spell
Keywords == {<<"i", "n">>, <<"i", "f">>, <<"i", "s">>, <<"a", "s">>,
             <<"a", "n", "d">>, <<"n", "o", "t">>, <<"d", "e", "f">>,
             <<"d", "e", "l">>, <<"e", "l", "s", "e">>, <<"e", "l", "i", "f">>}

\* exec( key + '= np.array(val)' ) binds a name exactly when key is one
BindsName(key) == IsIdentifier(key) /\ key \notin Keywords

\* a loop body without the try: the failure of exec leaves it
BindEscapesUncaught(key) == ~BindsName(key)
\* try: exec(...) except: pass -- no exception leaves the body of the loop
BindEscapes(key) == FALSE

\* sys.version_info < (3,6)
VersionLess(v, w) == v[1] < w[1] \/ (v[1] = w[1] /\ v[2] < w[2])

W_y == <<"y">>

\* the names the binding loop leaves bound for the evaluation.  Under
\* Python 2 exec writes the function's locals.  Under Python 3 it writes the
\* frame's dictionary, and the later call of locals() restores the
\* function's own local y, which is unbound, in it.
BindAll(d, ver) ==
  SelectSeq(d, LAMBDA it : BindsName(it.key) /\ (ver[1] = 2 \/ it.key # W_y))

\* a lookup that only finds keys that are identifiers
FastPathIdentifiersOnly(e, d) == DictHas(d, e) /\ IsIdentifier(e)
\* y = a_dict[ a_string ] succeeds
FastPath(e, d) == DictHas(d, e)

Array(a) == [kind |-> "array", col |-> 0, val |-> a]
Scalar(v) == [kind |-> "scalar", col |-> 0, val |-> <<v>>]
Column(c, a) == [kind |-> "column", col |-> c, val |-> a]

\* float arithmetic, on the exact values
VAdd(x, y) ==
  IF x = NaN \/ y = NaN THEN NaN
  ELSE IF x[2] = 0 /\ y[2] = 0 THEN (IF x = y THEN x ELSE NaN)
  ELSE Frac(x[1] * y[2] + y[1] * x[2], x[2] * y[2])
VMul(x, y) == Frac(x[1] * y[1], x[2] * y[2])
Recip(y) ==
  IF y[1] = 0 THEN (IF y[2] = 0 THEN NaN ELSE Inf)
  ELSE IF y[2] = 0 THEN <<0, 1>>
  ELSE Frac(y[2], y[1])
VOp(op, x, y) ==
  CASE op = "+" -> VAdd(x, y)
    [] op = "-" -> VAdd(x, Neg(y))
    [] op = "*" -> VMul(x, y)
    [] op = "/" -> VMul(x, Recip(y))

\* the tokens of an expression
Tok(t, x) == [t |-> t, s |-> x]
RunEnd(e, i, digitsOnly) ==
  SetMax({j \in i..Len(e) : \A k \in i..j :
            IF digitsOnly THEN IsDigit(e[k]) ELSE IsWordChar(e[k])})
RECURSIVE Lex(_, _, _)
Lex(e, i, acc) ==
  IF i > Len(e) THEN acc
  ELSE IF e[i] = " " THEN Lex(e, i + 1, acc)
  ELSE IF e[i] \in Letters
    THEN Lex(e, RunEnd(e, i, FALSE) + 1,
             Append(acc, Tok("name", SubSeq(e, i, RunEnd(e, i, FALSE)))))
  ELSE IF IsDigit(e[i])
    THEN Lex(e, RunEnd(e, i, TRUE) + 1,
             Append(acc, Tok("num", SubSeq(e, i, RunEnd(e, i, TRUE)))))
  ELSE IF e[i] \in Operators THEN Lex(e, i + 1, Append(acc, Tok("op", <<e[i]>>)))
  ELSE Lex(e, i + 1, Append(acc, Tok("bad", <<e[i]>>)))

IsOperand(t) ==
  \/ t.t = "name" /\ t.s \notin Keywords
  \/ t.t = "num" /\ (Len(t.s) = 1 \/ t.s[1] # "0")

\* the parse of 'y = ' + a_string
ParseExpr(e) ==
  LET ts == Lex(e, 1, <<>>)
      none == Tok("none", <<>>)
  IN  IF Len(ts) = 1 /\ IsOperand(ts[1])
        THEN [ok |-> TRUE, op |-> "", l |-> ts[1], r |-> none]
      ELSE IF Len(ts) = 2 /\ ts[1].t = "op" /\ ts[1].s[1] \in {"+", "-"}
              /\ IsOperand(ts[2])
        THEN [ok |-> TRUE, op |-> "u" \o ts[1].s[1], l |-> ts[2], r |-> none]
      ELSE IF Len(ts) = 3 /\ IsOperand(ts[1]) /\ ts[2].t = "op" /\ IsOperand(ts[3])
        THEN [ok |-> TRUE, op |-> ts[2].s[1], l |-> ts[1], r |-> ts[3]]
      ELSE [ok |-> FALSE, op |-> "", l |-> none, r |-> none]

\* the value a name has in the namespaces of the evaluation: under
\* Python 3 the module's names come first, and of them only y can be named
NameValue(name, names, cs, ver, yg) ==
  IF ver[1] = 3 /\ name = W_y /\ yg.kind # "none" THEN yg
  ELSE IF \E i \in 1..Len(names) : names[i].key = name
    THEN Array(cs[DictGet(names, name) + 1])
  ELSE NoResult

OperandValue(t, names, cs, ver, yg) ==
  IF t.t = "num" THEN Scalar(<<IntOf(t.s), 1>>)
  ELSE NameValue(t.s, names, cs, ver, yg)

\* x op y for arrays (elementwise, a scalar broadcast) and Python ints
Apply(op, x, y, ver) ==
  IF x.kind = "scalar" /\ y.kind = "scalar"
    THEN LET a == x.val[1]
             b == y.val[1]
         IN  IF op = "/" /\ ver[1] = 2 /\ a[2] = 1 /\ b[2] = 1
               THEN Scalar(<<a[1] \div b[1], 1>>)
               ELSE Scalar(VOp(op, a, b))
  ELSE IF x.kind = "scalar"
    THEN Array([i \in 1..Len(y.val) |-> VOp(op, x.val[1], y.val[i])])
  ELSE IF y.kind = "scalar"
    THEN Array([i \in 1..Len(x.val) |-> VOp(op, x.val[i], y.val[1])])
  ELSE Array([i \in 1..Len(x.val) |-> VOp(op, x.val[i], y.val[i])])

EvalOk(v) == [type |-> "", text |-> <<>>, val |-> v]
EvalRaise(t, x) == [type |-> t, text |-> x, val |-> NoResult]

W_assign == <<"y", " ", "=", " ">>

\* exec( 'y = ' + e ): the value assigned to y, or the exception raised
Eval(e, names, cs, ver, yg) ==
  LET p == ParseExpr(e)
      l == OperandValue(p.l, names, cs, ver, yg)
      r == OperandValue(p.r, names, cs, ver, yg)
  IN  IF ~p.ok THEN EvalRaise("SyntaxError", W_assign \o e)
      ELSE IF l.kind = "none" THEN EvalRaise("NameError", p.l.s)
      ELSE IF p.op = "" THEN EvalOk(l)
      ELSE IF p.op = "u+" THEN EvalOk(Apply("*", Scalar(<<1, 1>>), l, ver))
      ELSE IF p.op = "u-" THEN EvalOk(Apply("*", Scalar(<<-1, 1>>), l, ver))
      ELSE IF r.kind = "none" THEN EvalRaise("NameError", p.r.s)
      ELSE IF p.op = "/" /\ l.kind = "scalar" /\ r.kind = "scalar"
              /\ r.val[1][1] = 0
        THEN EvalRaise("ZeroDivisionError", <<>>)
      ELSE EvalOk(Apply(p.op, l, r, ver))

E_column0 == <<"c", "o", "l", "u", "m", "n", "0">>
E_quotedkey == <<"a", " ", "b">>
E_difference == <<"c", "o", "l", "u", "m", "n", "1", " ", "-", " ",
                  "c", "o", "l", "u", "m", "n", "0">>
E_ratio == <<"b", "/", "a">>
E_undefined == <<"u", " ", "*", " ", "2">>
E_syntax == <<"a", " ", "+">>
E_zerodiv == <<"2", "/", "0">>
E_ytwice == <<"y", "*", "2">>

\* the expressions given as --x and --y
ExprPool == {E_column0, E_quotedkey, E_difference, E_ratio, E_undefined,
             E_syntax, E_zerodiv, E_ytwice}

\* the lookup succeeds: return y
GetyFast(e) ==
  /\ pc = "plot"
  /\ FastPath(e, data)
  /\ expr' = e
  /\ env' = <<>>
  /\ ylocal' = Column(DictGet(data, e), cols[DictGet(data, e) + 1])
  /\ result' = Column(DictGet(data, e), cols[DictGet(data, e) + 1])
  /\ UNCHANGED <<fileVars, pos, pc, readVars, mainVars, yglobal, exc>>

\* the lookup fails; the loop over a_dict.items() binds what it can
GetyBind(e) ==
  /\ pc = "plot"
  /\ ~FastPath(e, data)
  /\ expr' = e
  /\ result' = NoResult
  /\ IF \E i \in 1..Len(data) : BindEscapes(data[i].key)
       THEN /\ exc' = Exc("SyntaxError", <<>>)
            /\ pc' = "raised_gety"
            /\ UNCHANGED <<env, ylocal>>
       ELSE /\ env' = BindAll(data, version)
            /\ ylocal' = IF version[1] = 2 /\ DictHas(BindAll(data, version), W_y)
                           THEN Array(cols[DictGet(data, W_y) + 1])
                           ELSE NoResult
            /\ pc' = "gety_eval"
            /\ UNCHANGED exc
  /\ UNCHANGED <<fileVars, pos, readVars, mainVars, yglobal>>

\* exec( 'y = '+a_string ) or exec( 'y = '+a_string, locals(), globals() ):
\* Python 2 assigns the function's local y; Python 3 before 3.6 assigns y in
\* the frame's dictionary, which return y does not read; from 3.6 on the
\* module's y is assigned
GetyEval ==
  /\ pc = "gety_eval"
  /\ LET r == Eval(expr, env, cols, version, yglobal)
     IN  IF r.type # ""
           THEN /\ exc' = Exc(r.type, r.text)
                /\ pc' = "raised_gety"
                /\ UNCHANGED <<ylocal, yglobal>>
           ELSE /\ pc' = "gety_return"
                /\ ylocal' = IF version[1] = 2 THEN r.val ELSE ylocal
                /\ yglobal' = IF VersionLess(version, <<3, 6>>) THEN yglobal
                              ELSE r.val
                /\ UNCHANGED exc
  /\ UNCHANGED <<fileVars, pos, readVars, mainVars, expr, env, result>>

\* return y
GetyReturn ==
  /\ pc = "gety_return"
  /\ IF ylocal.kind = "none"
       THEN /\ exc' = Exc("UnboundLocalError", W_y)
            /\ pc' = "raised_gety"
            /\ UNCHANGED result
       ELSE /\ result' = ylocal
            /\ pc' = "plot"
            /\ UNCHANGED exc
  /\ UNCHANGED <<fileVars, pos, readVars, mainVars, expr, env, ylocal,
                 yglobal>>

Next ==
  \/ ReadfileBegin
  \/ LoopEof
  \/ LoopBlank
  \/ LoopRow
  \/ LoopComment
  \/ LoopRewind
  \/ Transpose
  \/ FindLabels
  \/ MainNrows
  \/ BuildPositional
  \/ BuildLabels
  \/ \E e \in ExprPool : GetyFast(e)
  \/ \E e \in ExprPool : GetyBind(e)
  \/ GetyEval
  \/ GetyReturn

Spec == Init /\ [][Next]_vars

(***************************************************************************)
(* What the claims are stated with: the lines of the file, read off its    *)
(* characters independently of the reader.                                 *)
(***************************************************************************)
RECURSIVE LinesFrom(_, _)
LinesFrom(c, p) ==
  IF p >= Len(c) THEN <<>>
  ELSE LET nls == {i \in (p + 1)..Len(c) : c[i] = NL}
           e == IF nls = {} THEN Len(c) ELSE SetMin(nls)
       IN  <<SubSeq(c, p + 1, e)>> \o LinesFrom(c, e)

\* the offset at which line k of the lines ls starts
RECURSIVE OffsetOf(_, _)
OffsetOf(ls, k) == IF k <= 1 THEN 0 ELSE OffsetOf(ls, k - 1) + Len(ls[k - 1])

\* a line is blank, numeric (every token a float) or prose
KindOf(l) ==
  IF Strip(l) = <<>> THEN "blank"
  ELSE IF \A i \in 1..Len(Split(l)) : IsFloat(Split(l)[i]) THEN "numeric"
  ELSE "prose"
KindsOf(ls) == [k \in 1..Len(ls) |-> KindOf(ls[k])]

\* the line that ends the table: the first that is blank, or prose after a
\* numeric line; one more than the number of lines when there is none
TableEnd(kinds) ==
  SetMin({k \in 1..Len(kinds) :
            \/ kinds[k] = "blank"
            \/ kinds[k] = "prose" /\ \E j \in 1..(k - 1) : kinds[j] = "numeric"}
         \cup {Len(kinds) + 1})

RECURSIVE RowsBefore(_, _, _)
RowsBefore(ls, kinds, k) ==
  IF k <= 1 THEN <<>>
  ELSE IF kinds[k - 1] = "numeric"
    THEN Append(RowsBefore(ls, kinds, k - 1),
                [i \in 1..Len(Split(ls[k - 1])) |-> FloatOf(Split(ls[k - 1])[i])])
  ELSE RowsBefore(ls, kinds, k - 1)

RECURSIVE CommentsBefore(_, _, _)
CommentsBefore(ls, kinds, k) ==
  IF k <= 1 THEN <<>>
  ELSE IF kinds[k - 1] = "prose"
    THEN Append(CommentsBefore(ls, kinds, k - 1), Strip(ls[k - 1]))
  ELSE CommentsBefore(ls, kinds, k - 1)

\* readfile's loop has ended and the program is still in readfile or has
\* just left it
LoopOver == pc \in {"transpose", "labels", "returned", "raised_readfile"}
Returned == pc = "returned"

(***************************************************************************)
(* C1: when a non-blank line that fails numeric parsing is read after at   *)
(* least one Row, reading stops, the line is recorded neither as a Row nor *)
(* as a Comment, the stream position is the offset of the start of that    *)
(* line, so the next readline returns that line, and the Rows are exactly  *)
(* the numeric lines before it.                                            *)
(***************************************************************************)
C1_RewindLeavesLineUnread ==
  LoopOver =>
    LET ls == LinesFrom(content, 0)
        kinds == KindsOf(ls)
        e == TableEnd(kinds)
    IN  (e <= Len(ls) /\ kinds[e] = "prose") =>
          /\ exit = "rewind"
          /\ pos = OffsetOf(ls, e)
          /\ ReadLine(content, pos) = ls[e]
          /\ rows = RowsBefore(ls, kinds, e)
          /\ comments = CommentsBefore(ls, kinds, e)

\* a row and the line that ends the table have been read, a line follows
\* it in the file, and readfile has returned
C1_Witness ==
  /\ pc = "returned"
  /\ exit = "rewind"
  /\ rows # <<>>
  /\ pos + Len(ReadLine(content, pos)) < Len(content)

(***************************************************************************)
(* C2: readfile never raises: no input ends it in an error.                *)
(***************************************************************************)
C2_ReadfileNeverRaises == pc # "raised_readfile"

(***************************************************************************)
(* C3: the labels are the tokens of the last comment with one leading "#"  *)
(* and then the whole leading word "labels" stripped.                      *)
(***************************************************************************)
WholeWordLabelText(comment) ==
  LET s1 == IF StartsWith(comment, <<"#">>)
              THEN Strip(DropFirst(comment, 1)) ELSE comment
  IN  IF StartsWith(s1, W_labels) THEN Strip(DropFirst(s1, Len(W_labels))) ELSE s1

C3_LabelsWordStripped ==
  (Returned /\ comments # <<>>) =>
    labels = ShlexSplit(WholeWordLabelText(comments[Len(comments)])).tokens

(***************************************************************************)
(* C4: after readfile every Column has as many entries as there are Rows,  *)
(* also when the Rows have different token counts, and columns[i][j] is    *)
(* the i-th token of the j-th Row.                                         *)
(***************************************************************************)
C4_ColumnsAreTranspose ==
  Returned =>
    LET ls == LinesFrom(content, 0)
        kinds == KindsOf(ls)
    IN  /\ rows = RowsBefore(ls, kinds, TableEnd(kinds))
        /\ (rows # <<>> => cols # <<>>)
        /\ \A i \in 1..Len(cols) :
             /\ Len(cols[i]) = Len(rows)
             /\ \A j \in 1..Len(rows) : Len(rows[j]) >= i /\ cols[i][j] = rows[j][i]

\* rows of different widths have been transposed
C4_Witness ==
  /\ pc = "returned"
  /\ Len(rows) >= 2
  /\ \E j \in 1..Len(rows) : Len(rows[j]) # Len(rows[1])
  /\ Len(cols) >= 2

(***************************************************************************)
(* C5: a blank line stops reading at once, whatever came before: no line   *)
(* after it is recorded as a Row or a Comment, and a file whose first line *)
(* is blank gives empty Comments, Columns and Labels.                      *)
(***************************************************************************)
C5_BlankLineStops ==
  pc \in {"loop", "transpose", "labels", "returned", "raised_readfile"} =>
    LET ls == LinesFrom(content, 0)
        kinds == KindsOf(ls)
        e == TableEnd(kinds)
    IN  \A k \in 1..Len(ls) :
          kinds[k] = "blank" =>
            /\ Len(rows) + Len(comments) < k
            /\ pos <= OffsetOf(ls, k + 1)
            /\ (LoopOver /\ e = k) =>
                 /\ exit = "blank"
                 /\ pos = OffsetOf(ls, k + 1)
                 /\ rows = RowsBefore(ls, kinds, k)
                 /\ comments = CommentsBefore(ls, kinds, k)
            /\ k = 1 => comments = <<>> /\ rows = <<>> /\ cols = <<>> /\ labels = <<>>

\* a blank line after recorded lines and before further lines ended the table
C5_Witness ==
  /\ pc = "returned"
  /\ exit = "blank"
  /\ Len(rows) + Len(comments) >= 1
  /\ pos < Len(content)

\* the symbol table is built and no call of gety is under way
TableBuilt == pc = "plot"

\* how many labels zip(labels, cols) binds
BoundLabels == IF Len(labels) < Len(cols) THEN Len(labels) ELSE Len(cols)

(***************************************************************************)
(* C6: the symbol table holds the positional keys column0..column(N-1),    *)
(* inserted first, and the first min(L, N) labels; a label maps to the     *)
(* column at its index, for a duplicate label at the index of its last     *)
(* occurrence, and a key column<i> maps to column i unless a bound label   *)
(* is that very text.                                                      *)
(***************************************************************************)
C6_SymbolTable ==
  TableBuilt =>
    /\ DictKeys(data) = {ColumnName(i) : i \in 0..(Len(cols) - 1)}
                          \cup {labels[k] : k \in 1..BoundLabels}
    /\ Cardinality(DictKeys(data)) = Len(data)
    /\ \A i \in 1..Len(cols) : data[i].key = ColumnName(i - 1)
    /\ \A n \in 1..Len(data) :
         LET at == {k \in 1..BoundLabels : labels[k] = data[n].key}
         IN  IF at # {} THEN data[n].col = SetMax(at) - 1
             ELSE data[n].key = ColumnName(data[n].col)

\* a bound label is the text of the positional key of another column, more
\* labels than columns were given and a label is given twice
C6_Witness ==
  /\ pc = "plot"
  /\ \/ \E k \in 1..BoundLabels : \E i \in 0..(Len(cols) - 1) :
          labels[k] = ColumnName(i) /\ i # k - 1
     \/ /\ Len(labels) > Len(cols)
        /\ \E k \in 1..BoundLabels : \E j \in 1..(k - 1) : labels[j] = labels[k]

(***************************************************************************)
(* C7: for an expression that is a key of the table, also one that is no   *)
(* legal identifier, gety returns the Column stored under that key without *)
(* running the binding loop or evaluating anything, and leaves the table   *)
(* unchanged.                                                              *)
(***************************************************************************)
C7_FastPath ==
  [][(pc = "plot" /\ expr' \in DictKeys(data)) =>
       /\ pc' = "plot"
       /\ result' = Column(DictGet(data, expr'), cols[DictGet(data, expr') + 1])
       /\ env' = <<>>
       /\ data' = data
       /\ cols' = cols
       /\ yglobal' = yglobal
       /\ exc' = NoExc]_vars

\* gety returned the column of a key with embedded whitespace
C7_Witness ==
  /\ pc = "plot"
  /\ expr \in DictKeys(data)
  /\ ~IsIdentifier(expr)
  /\ result.kind = "column"

(***************************************************************************)
(* C8: for an expression that is no key of the table, gety returns to its  *)
(* caller the value of the expression with every bindable key bound to its *)
(* Column as an elementwise array.                                         *)
(***************************************************************************)
Bindable(d) == SelectSeq(d, LAMBDA it : IsIdentifier(it.key) /\ it.key \notin Keywords)

C8_GetyReturnsValue ==
  (/\ pc \in {"plot", "raised_gety"}
   /\ expr # <<>>
   /\ expr \notin DictKeys(data)
   /\ Eval(expr, Bindable(data), cols, version, NoResult).type = "") =>
    /\ pc = "plot"
    /\ result = Eval(expr, Bindable(data), cols, version, NoResult).val

(***************************************************************************)
(* C9: when the evaluation of the expression fails, gety signals an        *)
(* ExpressionError that carries the expression text.                       *)
(***************************************************************************)
\* the evaluation as gety performs it
EvalOutcome == Eval(expr, BindAll(data, version), cols, version, yglobal)

EvalErrors == {"NameError", "SyntaxError", "ZeroDivisionError"}

C10_NoIndexFault ==
  /\ (pc = "returned" /\ rows = <<>>) => cols = <<>>
  /\ exc.type # "IndexError"

=============================================================================
